---- MODULE Spec2Model ----
(***************************************************************************)
(* Model of inspection_app.py: the condition-inference engine              *)
(* (derive_condition_and_note, merge_conditions_and_notes), the default    *)
(* of the condition widget, and the item loop of one Streamlit script run  *)
(* over st.session_state (inspection_data, photos, ai_results).            *)
(*                                                                         *)
(* Strings that the code builds (notes) are sequences of word tokens, so   *)
(* that "the note mentions w" is membership of w in the sequence; a tag    *)
(* is the pair <<name, confidence>> with the confidence in tenths; a       *)
(* classification result is the pair <<condition, note>>.                  *)
(***************************************************************************)
EXTENDS Integers, Sequences, FiniteSets, TLC

VARIABLES
    pc,                 \* position of the script run / of the engine call
    call,               \* arguments of the engine call under check
    ret,                \* what the engine call returned or raised
    inspection_data,    \* st.session_state.inspection_data
    photos,             \* st.session_state.photos
    ai_results,         \* st.session_state.ai_results
    runs,               \* script runs started so far
    i,                  \* index of `item` in `items` (the for loop of line 407)
    condition,          \* value of the condition radio of the current item
    note,               \* value of the notes text area of the current item
    uploaded_photos,    \* value of the file uploader of the current item
    fetch,              \* what analyze_with_azure gives for each uploaded photo
    j,                  \* index of `p` in uploaded_photos (the loop of line 467)
    ai_results_local    \* the local list ai_results of line 465

vars == <<pc, call, ret, inspection_data, photos, ai_results, runs, i,
          condition, note, uploaded_photos, fetch, j, ai_results_local>>

engineVars == <<call, ret>>

sessionVars == <<inspection_data, photos, ai_results>>

runVars == <<runs, i, condition, note, uploaded_photos, fetch, j, ai_results_local>>

----------------------------------------------------------------------------
(* Bounds of the model *)

MaxTags == 3

MaxResults == 3

MaxPhotos == 2

MaxRuns == 2

----------------------------------------------------------------------------
(* Program data *)

CONDITION_OPTIONS == <<"Good", "Fair", "Poor">>

STRUCTURAL_NEGATIVE_TAGS ==
    {"crack", "cracked", "damage", "damaged", "broken", "stain", "stained",
     "dirty", "dirt", "mold", "mould", "rust", "rusty", "peeling", "chipped",
     "hole", "holes", "scratch", "scratched", "worn", "wear", "scuff",
     "scuffed", "dent", "dented", "leak", "leaking", "water damage"}

STRUCTURAL_MINOR_TAGS ==
    {"worn", "wear", "scuff", "scuffed", "chipped", "scratch", "scratched",
     "discoloration", "discoloured", "faded"}

IGNORED_TAGS ==
    {"cluttered", "messy", "clothes", "clothing", "bed", "blanket", "pillow",
     "box", "boxes", "bedding", "furniture", "sofa", "chair", "table",
     "personal items", "decor", "decoration", "toys", "laptop", "phone",
     "bag", "bags", "shoes", "books", "guitar", "instrument", "monitor",
     "tv", "television", "dresser", "couch", "lamp", "mirror", "frame",
     "plant", "plants", "bottle", "bottles", "laundry", "toy", "snake",
     "poster", "picture", "painting", "rug", "carpet", "mattress",
     "pillowcase", "sheet", "towel", "basket", "bin", "container"}

\* The room of the first template and its first two items.
selected_room == "Living Room"

items == <<"Walls", "Flooring">>

----------------------------------------------------------------------------
(* Sequences and token strings *)

Range(s) == {s[k] : k \in 1..Len(s)}

SeqsUpTo(S, n) == UNION {[1..k -> S] : k \in 0..n}

\* `phrase` occurs in `text` as consecutive words.
Mentions(text, phrase) ==
    \E k \in 0..(Len(text) - Len(phrase)) :
        \A l \in 1..Len(phrase) : text[k + l] = phrase[l]

NEWLINE == "\n"

----------------------------------------------------------------------------
(* derive_condition_and_note *)

structural(tags) == SelectSeq(tags, LAMBDA t : t[1] \notin IGNORED_TAGS)

has_severe(tags) ==
    \E k \in 1..Len(structural(tags)) :
        structural(tags)[k][1] \in STRUCTURAL_NEGATIVE_TAGS

has_minor_copy_paste(tags) ==
    \E k \in 1..Len(structural(tags)) :
        structural(tags)[k][1] \in STRUCTURAL_NEGATIVE_TAGS

has_minor(tags) ==
    \E k \in 1..Len(structural(tags)) :
        structural(tags)[k][1] \in STRUCTURAL_MINOR_TAGS

resolve_minor_first(severe, minor) ==
    IF minor THEN "Fair" ELSE IF severe THEN "Poor" ELSE "Good"

resolve_condition(severe, minor) ==
    IF severe THEN "Poor" ELSE IF minor THEN "Fair" ELSE "Good"

note_for(cond, item_name) ==
    IF cond = "Good"
    THEN <<item_name, "appears", "clean", "and", "well-maintained", "with",
           "no", "concerns", "noted", ".">>
    ELSE IF cond = "Fair"
    THEN <<item_name, "shows", "light", "wear", "consistent", "with",
           "normal", "use", ".">>
    ELSE <<item_name, "shows", "visible", "damage", "and", "may", "require",
           "repair", ".">>

derive_condition_and_note(tags, caption, item_name) ==
    LET cond == resolve_condition(has_severe(tags), has_minor(tags))
    IN  <<cond, note_for(cond, item_name)>>

----------------------------------------------------------------------------
(* merge_conditions_and_notes *)

rank == ("Good" :> 1) @@ ("Fair" :> 2) @@ ("Poor" :> 3)

worse_last_wins(cond, worst) == cond

\* lines 208-209; both arguments are keys of rank
worse(cond, worst) == IF rank[cond] > rank[worst] THEN cond ELSE worst

collect_all(notes, n) == Append(notes, n)

\* lines 210-211
collect(notes, n) == IF n \in Range(notes) THEN notes ELSE Append(notes, n)

\* The for loop of lines 207-211 from results[k] on; rank[cond] raises KeyError
\* for a cond that is no key of rank.
RECURSIVE merge_loop(_, _, _, _)
merge_loop(results, k, worst, notes) ==
    IF k > Len(results)
    THEN [raised |-> "none", worst |-> worst, notes |-> notes]
    ELSE IF results[k][1] \notin DOMAIN rank
    THEN [raised |-> "KeyError", worst |-> worst, notes |-> notes]
    ELSE merge_loop(results, k + 1, worse(results[k][1], worst),
                    collect(notes, results[k][2]))

\* "\n".join(f"- {n}" for n in notes)
RECURSIVE join_lines(_)
join_lines(notes) ==
    IF notes = <<>> THEN <<>>
    ELSE IF Len(notes) = 1 THEN <<"-">> \o notes[1]
    ELSE <<"-">> \o notes[1] \o <<NEWLINE>> \o join_lines(Tail(notes))

merge_without_empty_guard(results, item_name) ==
    LET r == merge_loop(results, 1, "Good", <<>>)
    IN  IF r.raised # "none"
        THEN [raised |-> r.raised, value |-> <<>>]
        ELSE [raised |-> "none", value |-> <<r.worst, join_lines(r.notes)>>]

merge_conditions_and_notes(results, item_name) ==
    IF results = <<>>
    THEN [raised |-> "none",
          value |-> <<"Good", <<"-", item_name, "appears", "clean", "and",
                                "well-maintained", ".">>>>]
    ELSE LET r == merge_loop(results, 1, "Good", <<>>)
         IN  IF r.raised # "none"
             THEN [raised |-> r.raised, value |-> <<>>]
             ELSE [raised |-> "none", value |-> <<r.worst, join_lines(r.notes)>>]

----------------------------------------------------------------------------
(* The default of the condition widget *)

EmptyDict == [k \in {} |-> k]

\* d.get(k, default)
dict_get(d, k, default) == IF k \in DOMAIN d THEN d[k] ELSE default

\* line 425
default_condition_of(ai, saved) ==
    dict_get(ai, "condition", dict_get(saved, "condition", "Good"))

\* line 426
default_note_of(ai, saved) == dict_get(ai, "note", dict_get(saved, "note", <<>>))

\* CONDITION_OPTIONS.index(x) of line 433 (0-based in the code, 1-based here);
\* list.index raises ValueError for a value that is not in the list.
options_index(x) ==
    IF x \in Range(CONDITION_OPTIONS)
    THEN [raised |-> "none",
          value |-> CHOOSE k \in 1..Len(CONDITION_OPTIONS) : CONDITION_OPTIONS[k] = x]
    ELSE [raised |-> "ValueError", value |-> 0]

----------------------------------------------------------------------------
(* Inputs of the engine calls *)

TagNames == {"crack", "scuffed", "faded", "bed", "wall"}

Confidences == {7, 8, 9}

Captions == {<<>>, <<"a", "cracked", "wall">>}

ItemNames == Range(items)

TagSeqs == SeqsUpTo(TagNames \X Confidences, MaxTags)

\* What a result passed to merge may carry as its condition: the three levels
\* and a value outside them.
ConditionValues == {"Good", "Fair", "Poor", "Bad"}

NoteTexts == {<<"ok">>, <<"cracked", "wall">>, note_for("Poor", "Walls")}

ResultSeqs == SeqsUpTo(ConditionValues \X NoteTexts, MaxResults)

NoCall == [fn |-> "none"]

NoRet == [raised |-> "none", value |-> <<>>]

SessionInit ==
    /\ inspection_data = EmptyDict
    /\ photos = EmptyDict
    /\ ai_results = EmptyDict

RunInit ==
    /\ runs = 0
    /\ i = 0
    /\ condition = "Good"
    /\ note = <<>>
    /\ uploaded_photos = <<>>
    /\ fetch = <<>>
    /\ j = 0
    /\ ai_results_local = <<>>

----------------------------------------------------------------------------
(* SpecDerive: derive_condition_and_note applied to every bounded input *)

InitDerive ==
    /\ pc = "call"
    /\ call \in [fn : {"derive"}, tags : TagSeqs, caption : Captions,
                 item_name : ItemNames]
    /\ ret = NoRet
    /\ SessionInit
    /\ RunInit

CallDerive ==
    /\ pc = "call"
    /\ call.fn = "derive"
    /\ ret' = [raised |-> "none",
               value |-> derive_condition_and_note(call.tags, call.caption,
                                                   call.item_name)]
    /\ pc' = "done"
    /\ UNCHANGED <<call, sessionVars, runVars>>

NextDerive == CallDerive

SpecDerive == InitDerive /\ [][NextDerive]_vars

----------------------------------------------------------------------------
(* SpecMerge: merge_conditions_and_notes and the widget default applied to   *)
(* every bounded input, stored values outside CONDITION_OPTIONS included     *)

StoredDicts ==
    {EmptyDict} \cup [condition : ConditionValues, note : {<<"ok">>}]

InitMerge ==
    /\ pc = "call"
    /\ \/ call \in [fn : {"merge"}, results : ResultSeqs, item_name : ItemNames]
       \/ call \in [fn : {"radio"}, ai : StoredDicts, saved : StoredDicts]
    /\ ret = NoRet
    /\ SessionInit
    /\ RunInit

CallMerge ==
    /\ pc = "call"
    /\ call.fn = "merge"
    /\ ret' = merge_conditions_and_notes(call.results, call.item_name)
    /\ pc' = IF ret'.raised = "none" THEN "done" ELSE "raised"
    /\ UNCHANGED <<call, sessionVars, runVars>>

\* lines 425 and 433: the index the radio is given
CallRadio ==
    /\ pc = "call"
    /\ call.fn = "radio"
    /\ ret' = options_index(default_condition_of(call.ai, call.saved))
    /\ pc' = IF ret'.raised = "none" THEN "done" ELSE "raised"
    /\ UNCHANGED <<call, sessionVars, runVars>>

NextMerge == CallMerge \/ CallRadio

SpecMerge == InitMerge /\ [][NextMerge]_vars

----------------------------------------------------------------------------
(* Spec: script runs of the app over st.session_state *)

\* photos_key of line 409
photos_key(item) == <<selected_room, item>>

\* d[k] = v on a dict
dict_put(d, k, v) == [x \in DOMAIN d \cup {k} |-> IF x = k THEN v ELSE d[x]]

\* What analyze_with_azure gives for one photo: (tags, caption), or an exception
\* of Image.open, requests.post, raise_for_status or response.json.
AzureTagSeqs == {<<<<"faded", 7>>>>, <<<<"crack", 9>>, <<"bed", 8>>>>}

FetchFailed == [raised |-> "RequestException", tags |-> <<>>, caption |-> <<>>]

FetchOutcomes ==
    {FetchFailed} \cup [raised : {"none"}, tags : AzureTagSeqs, caption : {<<>>}]

UserEdits == {[condition |-> "Poor", note |-> <<"tenant", "to", "repaint">>]}

Init ==
    /\ pc = "idle"
    /\ call = NoCall
    /\ ret = NoRet
    /\ SessionInit
    /\ RunInit

\* One user interaction starts a script run (lines 346-400); the Reset button
\* of lines 376-379 clears the session dicts.
Rerun ==
    /\ pc = "idle"
    /\ runs < MaxRuns
    /\ runs' = runs + 1
    /\ \E reset \in BOOLEAN :
        IF reset
        THEN /\ inspection_data' = EmptyDict
             /\ photos' = EmptyDict
             /\ ai_results' = EmptyDict
        ELSE UNCHANGED sessionVars
    /\ i' = 1
    /\ pc' = "render"
    /\ UNCHANGED <<engineVars, condition, note, uploaded_photos, fetch, j,
                   ai_results_local>>

\* Lines 408-465 for items[i]: the defaults, the three widgets, and the start
\* of the upload batch.
RenderItem ==
    /\ pc = "render"
    /\ LET key == photos_key(items[i])
           saved == dict_get(inspection_data, key, EmptyDict)
           ai == dict_get(ai_results, key, EmptyDict)
           idx == options_index(default_condition_of(ai, saved))
       IN  IF idx.raised # "none"
           THEN /\ pc' = "crashed"
                /\ UNCHANGED <<sessionVars, condition, note, uploaded_photos,
                               fetch, j, ai_results_local>>
           ELSE \* the widgets give their defaults, or what the user entered
                /\ \E widgets \in {[condition |-> CONDITION_OPTIONS[idx.value],
                                     note |-> default_note_of(ai, saved)]}
                                   \cup UserEdits :
                    /\ condition' = widgets.condition
                    /\ note' = widgets.note
                /\ \E n \in 0..MaxPhotos :
                    /\ uploaded_photos' = [k \in 1..n |-> k]
                    /\ fetch' \in [1..n -> FetchOutcomes]
                /\ IF uploaded_photos' # <<>>
                   THEN /\ photos' = dict_put(photos, key, uploaded_photos')
                        /\ ai_results_local' = <<>>
                        /\ j' = 1
                        /\ pc' = "analyze"
                   ELSE /\ pc' = "display"
                        /\ UNCHANGED <<photos, j, ai_results_local>>
                /\ UNCHANGED <<inspection_data, ai_results>>
    /\ UNCHANGED <<engineVars, runs, i>>

\* analyze_photo_condition_only (lines 191-193)
analyze_photo_condition_only(response, item_name) ==
    derive_condition_and_note(response.tags, response.caption, item_name)

AnalyzePhoto_abort ==
    /\ pc = "analyze"
    /\ IF fetch[j].raised # "none"
       THEN /\ pc' = "check"
            /\ UNCHANGED <<ai_results_local, j>>
       ELSE /\ ai_results_local' =
                   Append(ai_results_local,
                          analyze_photo_condition_only(fetch[j], items[i]))
            /\ j' = j + 1
            /\ pc' = IF j = Len(uploaded_photos) THEN "check" ELSE "analyze"
    /\ UNCHANGED <<engineVars, sessionVars, runs, i, condition, note,
                   uploaded_photos, fetch>>

\* One iteration of the loop of lines 467-472 on uploaded_photos[j]
AnalyzePhoto ==
    /\ pc = "analyze"
    /\ IF fetch[j].raised # "none"
       THEN UNCHANGED ai_results_local
       ELSE ai_results_local' =
                Append(ai_results_local,
                       analyze_photo_condition_only(fetch[j], items[i]))
    /\ j' = j + 1
    /\ pc' = IF j = Len(uploaded_photos) THEN "check" ELSE "analyze"
    /\ UNCHANGED <<engineVars, sessionVars, runs, i, condition, note,
                   uploaded_photos, fetch>>

CheckResults_unguarded ==
    /\ pc = "check"
    /\ pc' = "merge"
    /\ UNCHANGED <<engineVars, sessionVars, runVars>>

\* Line 474
CheckResults ==
    /\ pc = "check"
    /\ pc' = IF ai_results_local # <<>> THEN "merge" ELSE "display"
    /\ UNCHANGED <<engineVars, sessionVars, runVars>>

\* Lines 475-484
MergeAndApply ==
    /\ pc = "merge"
    /\ LET m == merge_conditions_and_notes(ai_results_local, items[i])
       IN  IF m.raised # "none"
           THEN /\ pc' = "crashed"
                /\ UNCHANGED ai_results
           ELSE /\ ai_results' =
                       dict_put(ai_results, photos_key(items[i]),
                                [condition |-> m.value[1], note |-> m.value[2]])
                /\ pc' = "display"
    /\ UNCHANGED <<engineVars, inspection_data, photos, runVars>>

\* Lines 486-497, then the next item; after the last item the summary of lines
\* 499-514 changes no state and the run ends.
DisplayAndSave ==
    /\ pc = "display"
    /\ inspection_data' =
           dict_put(inspection_data, photos_key(items[i]),
                    [condition |-> condition, note |-> note])
    /\ IF i < Len(items)
       THEN /\ i' = i + 1
            /\ pc' = "render"
            /\ UNCHANGED <<condition, note, uploaded_photos, fetch, j,
                           ai_results_local>>
       ELSE /\ i' = 0
            /\ pc' = "idle"
            /\ condition' = "Good"
            /\ note' = <<>>
            /\ uploaded_photos' = <<>>
            /\ fetch' = <<>>
            /\ j' = 0
            /\ ai_results_local' = <<>>
    /\ UNCHANGED <<engineVars, photos, ai_results, runs>>

Next ==
    \/ Rerun
    \/ RenderItem
    \/ AnalyzePhoto
    \/ CheckResults
    \/ MergeAndApply
    \/ DisplayAndSave

Spec == Init /\ [][Next]_vars

----------------------------------------------------------------------------
(* Properties of derive_condition_and_note, checked under SpecDerive *)

Derived == pc = "done" /\ call.fn = "derive"

\* Some tag of `tags` that is not ignored has its name in S.
HasScoringTagIn(tags, S) ==
    \E k \in 1..Len(tags) : tags[k][1] \in S \ IGNORED_TAGS

\* C1: a tag sequence with at least one tag in STRUCTURAL_NEGATIVE_TAGS and not
\* in IGNORED_TAGS is classified Poor, whatever minor or ignored tags it also
\* holds, in whatever order, with whatever confidences and caption.
C1_SevereDominates ==
    (Derived /\ HasScoringTagIn(call.tags, STRUCTURAL_NEGATIVE_TAGS))
        => ret.value[1] = "Poor"

C1_Witness ==
    /\ Derived
    /\ call.tags = <<<<"faded", 7>>, <<"bed", 8>>, <<"crack", 9>>>>
    /\ call.caption # <<>>
    /\ ret.value[1] = "Poor"

\* C2: a tag sequence with no non-ignored tag in STRUCTURAL_NEGATIVE_TAGS is
\* classified Fair exactly when some non-ignored tag is in
\* STRUCTURAL_MINOR_TAGS and Good otherwise; the empty sequence and sequences
\* of ignored tags only are Good.
C2_FairOrGood ==
    (Derived /\ ~HasScoringTagIn(call.tags, STRUCTURAL_NEGATIVE_TAGS))
        => /\ ret.value[1] =
                  IF HasScoringTagIn(call.tags, STRUCTURAL_MINOR_TAGS)
                  THEN "Fair" ELSE "Good"
           /\ (\A k \in 1..Len(call.tags) : call.tags[k][1] \in IGNORED_TAGS)
                  => ret.value[1] = "Good"

C2_Witness ==
    /\ Derived
    /\ call.tags = <<<<"bed", 8>>, <<"faded", 7>>, <<"wall", 9>>>>
    /\ ret.value[1] = "Fair"

\* C6: the tag sequence [("scuffed", 0.7)] is classified Fair, with a note
\* that mentions light wear and the keyword "scuffed".
C6_ScuffedIsFair ==
    (Derived /\ call.tags = <<<<"scuffed", 7>>>>)
        => /\ ret.value[1] = "Fair"
           /\ Mentions(ret.value[2], <<"light", "wear">>)
           /\ Mentions(ret.value[2], <<"scuffed">>)

\* C7: when the result is Poor the note names every matched negative keyword
\* and no tag of IGNORED_TAGS; [("crack", 0.9), ("bed", 0.8)] is Poor with a
\* note that mentions "crack" and not "bed".
C7_PoorNoteNamesKeywords ==
    /\ (Derived /\ ret.value[1] = "Poor")
           => \A k \in 1..Len(call.tags) :
                 /\ call.tags[k][1] \in STRUCTURAL_NEGATIVE_TAGS \ IGNORED_TAGS
                        => Mentions(ret.value[2], <<call.tags[k][1]>>)
                 /\ call.tags[k][1] \in IGNORED_TAGS
                        => ~Mentions(ret.value[2], <<call.tags[k][1]>>)
    /\ (Derived /\ call.tags = <<<<"crack", 9>>, <<"bed", 8>>>>)
           => /\ ret.value[1] = "Poor"
              /\ Mentions(ret.value[2], <<"crack">>)
              /\ ~Mentions(ret.value[2], <<"bed">>)

----------------------------------------------------------------------------
(* Properties of merge_conditions_and_notes, checked under SpecMerge *)

Merged == pc # "call" /\ call.fn = "merge"

\* Every condition of `results` is one of Good, Fair, Poor.
Typed(results) ==
    \A k \in 1..Len(results) : results[k][1] \in Range(CONDITION_OPTIONS)

\* The order Good < Fair < Poor
Level(c) == CHOOSE k \in 1..Len(CONDITION_OPTIONS) : CONDITION_OPTIONS[k] = c

IsWorstOf(c, results) ==
    /\ \E k \in 1..Len(results) : results[k][1] = c
    /\ \A k \in 1..Len(results) : Level(results[k][1]) <= Level(c)

Reversed(s) == [k \in 1..Len(s) |-> s[Len(s) + 1 - k]]

\* C3: for a non-empty sequence of results with conditions in Good, Fair, Poor,
\* merge returns the maximum condition of the inputs under Good < Fair < Poor,
\* whatever their order; of a single result it returns that result's condition.
C3_MergeIsWorst ==
    (Merged /\ call.results # <<>> /\ Typed(call.results))
        => /\ ret.raised = "none"
           /\ IsWorstOf(ret.value[1], call.results)
           /\ merge_conditions_and_notes(Reversed(call.results),
                                         call.item_name).value[1] = ret.value[1]
           /\ Len(call.results) = 1 => ret.value[1] = call.results[1][1]

C3_Witness ==
    /\ Merged
    /\ Len(call.results) = 3
    /\ call.results[1][1] = "Fair"
    /\ call.results[2][1] = "Poor"
    /\ call.results[3][1] = "Good"
    /\ ret.value[1] = "Poor"

\* The lines of a text, split at NEWLINE
RECURSIVE SplitLines(_)
SplitLines(text) ==
    IF \A k \in 1..Len(text) : text[k] # NEWLINE
    THEN <<text>>
    ELSE LET cut == CHOOSE k \in 1..Len(text) :
                        /\ text[k] = NEWLINE
                        /\ \A l \in 1..(k - 1) : text[l] # NEWLINE
         IN  <<SubSeq(text, 1, cut - 1)>>
                 \o SplitLines(SubSeq(text, cut + 1, Len(text)))

\* The positions at which a note occurs for the first time
FirstOccurrences(results) ==
    {k \in 1..Len(results) : \A l \in 1..(k - 1) : results[l][2] # results[k][2]}

\* C8: the note merge returns for a non-empty input lists the distinct input
\* notes, each exactly once as its own "- " line, in order of first occurrence.
C8_NotesDeduplicated ==
    (Merged /\ call.results # <<>> /\ Typed(call.results))
        => LET lines == SplitLines(ret.value[2])
               first == FirstOccurrences(call.results)
           IN  /\ ret.raised = "none"
               /\ Len(lines) = Cardinality(first)
               /\ \A k \in first :
                     lines[Cardinality({l \in first : l <= k})]
                         = <<"-">> \o call.results[k][2]
               /\ \A k \in 1..Len(call.results) :
                     Cardinality({l \in 1..Len(lines) :
                                     lines[l] = <<"-">> \o call.results[k][2]}) = 1

C8_Witness ==
    /\ Merged
    /\ Len(call.results) = 3
    /\ call.results[1] = call.results[3]
    /\ call.results[1][2] # call.results[2][2]
    /\ Len(SplitLines(ret.value[2])) = 2

\* C9: merge of the empty sequence does not fail: it returns Good and a
\* clean-and-well-maintained note that contains the item label.
C9_EmptyMerge ==
    (Merged /\ call.results = <<>>)
        => /\ pc = "done"
           /\ ret.raised = "none"
           /\ ret.value[1] = "Good"
           /\ Mentions(ret.value[2], <<"clean", "and", "well-maintained">>)
           /\ Mentions(ret.value[2], <<call.item_name>>)

C9_Witness ==
    /\ Merged
    /\ call.results = <<>>
    /\ call.item_name = "Flooring"
    /\ ret.value[1] = "Good"

\* `results` with every condition outside Good, Fair, Poor replaced by Fair
Coerced(results) ==
    [k \in 1..Len(results) |->
        IF results[k][1] \in Range(CONDITION_OPTIONS)
        THEN results[k]
        ELSE <<"Fair", results[k][2]>>]

\* C5: a condition outside Good, Fair, Poor that reaches merge or the default
\* of the condition widget is coerced to Fair, and nothing is raised.
C5_UnknownCoercedToFair ==
    /\ (Merged /\ call.results # <<>>)
           => /\ ret.raised = "none"
              /\ IsWorstOf(ret.value[1], Coerced(call.results))
    /\ (pc # "call" /\ call.fn = "radio")
           => /\ ret.raised = "none"
              /\ default_condition_of(call.ai, call.saved)
                     \notin Range(CONDITION_OPTIONS)
                  => CONDITION_OPTIONS[ret.value] = "Fair"

----------------------------------------------------------------------------
(* Properties of the upload batch, checked under Spec *)

InBatch == pc \in {"analyze", "check", "merge", "display"} /\ uploaded_photos # <<>>

SomeFailed == \E k \in 1..Len(fetch) : fetch[k].raised # "none"

SomeSucceeded == \E k \in 1..Len(fetch) : fetch[k].raised = "none"

\* The classifications of the photos whose fetch succeeded, in upload order
SucceededResults ==
    LET ok == SelectSeq(fetch, LAMBDA f : f.raised = "none")
    IN  [k \in 1..Len(ok) |->
            derive_condition_and_note(ok[k].tags, ok[k].caption, items[i])]

BatchAllFailed == InBatch /\ ~SomeSucceeded

\* C10: while and after a batch whose every fetch fails, merge is not called,
\* ai_results is left as it was for every key, the photos are recorded, and the
\* run goes on to write inspection_data[(room, item)].
C10_AllFailedLeavesSuggestion ==
    [][BatchAllFailed =>
          /\ ai_results' = ai_results
          /\ pc' \notin {"merge", "crashed"}
          /\ photos[photos_key(items[i])] = uploaded_photos
          /\ pc = "check" => pc' = "display"
          /\ pc = "display" =>
                /\ photos_key(items[i]) \in DOMAIN inspection_data'
                /\ inspection_data'[photos_key(items[i])] =
                       [condition |-> condition, note |-> note]]_vars

C10_Witness ==
    /\ BatchAllFailed
    /\ pc = "display"
    /\ Len(uploaded_photos) = 2
    /\ i = 2
    /\ DOMAIN ai_results = {photos_key(items[1]), photos_key(items[2])}

====
